---- MODULE Spec2Model ----
(***************************************************************************)
(* Per-user workout data-access layer of the lifting diary: the workouts   *)
(* table and its serial key, the workout_exercises junction table, the     *)
(* sets table, the exercise catalog, the foreign keys between them, and    *)
(* the repository functions getWorkoutsByDate, getWorkoutById,             *)
(* createWorkout, updateWorkout and getAllExercises; on top of it the      *)
(* server actions createWorkoutAction and updateWorkoutAction and the      *)
(* dashboard, new-workout and edit-workout pages.                          *)
(*                                                                         *)
(* Conventions.  A nullable column or an optional field is a set with at   *)
(* most one element: {} is null / undefined, {v} is the value v.  A Date   *)
(* is its epoch value in ticks; the local clock reads epoch + tz, and a    *)
(* local calendar day is DayLen ticks long (fixed offset, no DST change).  *)
(***************************************************************************)
EXTENDS Integers, Sequences, FiniteSets, TLC

\* ------------------------------------------------------------------ bounds
MaxWorkouts == 2
MaxTime == 3
MaxNow == 1
DayLen == 2
MaxLinks == 4
MaxRows == 2
MaxExercises == 2
MaxActionWorkouts == 1

\* ------------------------------------------------------------ input domains
Users == {"user_A", "user_B"}
TZOffsets == {-1, 0, 1}
Times == 0..MaxTime
\* ids a caller asks for: those the serial can have handed out, and one more
WorkoutIds == 1..(MaxWorkouts + 1)
\* ids the updates of the day-window specification ask for
DayWorkoutIds == 1..MaxWorkouts
\* data.name as a caller can pass it: undefined, "", whitespace only, or text
NameInputs == {{}, {""}, {" "}, {"Leg Day"}}
\* inputs of the repository specification: every name, a start on either day
DataInputs == [name : NameInputs, startedAt : {0, DayLen}]
\* inputs of the updates of the repository specification
UpdateDataInputs == [name : {{}, {"Leg Day"}}, startedAt : {0, DayLen}]
\* inputs of the clock specification: a name or none, one start
ClockDataInputs == [name : {{}, {"Leg Day"}}, startedAt : {0}]
\* inputs of the day-window specification: one name, every start tick
DayDataInputs == [name : {{"Leg Day"}}, startedAt : Times]
\* the seeded exercise catalog (exercises table: id, name unique, category)
Catalog ==
    << [id |-> 1, name |-> "Squat", category |-> "Legs"],
       [id |-> 2, name |-> "Bench Press", category |-> "Chest"] >>
LinkOrders == 0..2
\* names and categories the seeding of the catalog specification inserts
ExerciseNameInputs == {"Bench Press", "Deadlift", "Squat"}
CategoryInputs == {"Back", "Legs"}
\* auth(): the user who is signed in, {} when no one is
Sessions == {{}} \cup {{u} : u \in Users}
\* params.name of a server action: a name, and one of 256 characters
X16 == "xxxxxxxxxxxxxxxx"
X64 == X16 \o X16 \o X16 \o X16
LongName == X64 \o X64 \o X64 \o X64
ActionNameInputs == {{"Leg Day"}, {LongName}}
\* params.startedAt as new Date(input) reads it: {} is an Invalid Date
ActionDateInputs == {{}, {0}, {DayLen}}
\* params.id as Number(input) reads it: {} is NaN
ActionIdInputs == {{}, {0}} \cup {{n} : n \in 1..(MaxActionWorkouts + 1)}
\* keys of params that the schemas do not declare: the exerciseIds the edit
\* form sends, and a userId a client can add
ExtraInputs ==
    {[exerciseIds |-> << >>, userId |-> {}],
     [exerciseIds |-> << 1 >>, userId |-> {}],
     [exerciseIds |-> << >>, userId |-> {"user_B"}]}
CreateParams ==
    {[name |-> n, startedAt |-> t, userId |-> u] :
        n \in ActionNameInputs, t \in ActionDateInputs, u \in {{}, {"user_B"}}}
UpdateParams ==
    {[id |-> i, name |-> n, startedAt |-> t,
      exerciseIds |-> x.exerciseIds, userId |-> x.userId] :
        i \in ActionIdInputs, n \in ActionNameInputs, t \in ActionDateInputs,
        x \in ExtraInputs}
\* searchParams.date of a page: {} when absent or empty, {{}} a string that
\* is no date, {{n}} the string of calendar day n
DateParams == {{}, {{}}} \cup {{{n}} : n \in 0..MaxTime}
\* params.workoutId of the edit page as parseInt(workoutId, 10) reads it: {}
\* is NaN
WorkoutIdParams == {{}} \cup {{n} : n \in WorkoutIds}
\* inputs of the frame specification: a name or none, a start on either day
FrameDataInputs == [name : {{}, {"Leg Day"}}, startedAt : {0, DayLen}]
\* inputs of the schema specification: one name, one start
SchemaDataInputs == [name : {{"Leg Day"}}, startedAt : {0}]
\* ids of workout_exercises rows the schema specification hands to sets
LinkIds == 1..MaxRows
\* inputs of the update-frame specification: no name, an empty one, a blank
\* one or a new one, and a start on the second day
RenameDataInputs == [name : {{}, {""}, {" "}, {"Push"}}, startedAt : {DayLen}]
\* params of the server actions whose redirect is followed: a start at every
\* tick
RedirectCreateParams ==
    {[name |-> {"Leg Day"}, startedAt |-> {t}, userId |-> {}] : t \in Times}
RedirectUpdateParams ==
    {[id |-> {1}, name |-> {"Leg Day"}, startedAt |-> {t}, exerciseIds |-> << >>,
      userId |-> {}] : t \in Times}
\* the calendar days a redirect of these actions can name
RedirectDays == 0..(MaxTime \div DayLen)
\* the date handed to handleDateSelect: {} is undefined
NewDateInputs == {{}} \cup {{t} : t \in Times}
\* the calendar days a date picked in the calendar can fall on
CalendarDays == (0 - 1)..(MaxTime \div DayLen + 1)
\* the hours of a day and the minutes of an hour of the edit form's clock
HoursPerDay == 24
MinutesPerHour == 60
\* 24 * 60
MinutesPerDay == HoursPerDay * MinutesPerHour
\* the form is not mounted
NoForm == [timeMode |-> "unmounted"]
\* the local start times, in minutes of the day, of the workouts the edit form
\* is opened for
FormStartTimes == {0, 9 * MinutesPerHour + 30, 23 * MinutesPerHour}
\* the hours and minutes picked in the selects, out of hourOptions and
\* minuteOptions
PickedHours == {"00", "23"}
PickedMinutes == {"00", "30"}
\* the quick durations clicked, out of quickDurations
PickedDurations == {45, 120}
\* the values typed into the custom-minutes input: type="number" takes any
\* integer
TypedMinutes == {"", "-1", "0", "90", "1440", "1500"}
\* the local start times of the clock-time specification: every hour, at the
\* start, the middle and the last minute
ClockStartTimes ==
    {h * MinutesPerHour + m : h \in 0..(HoursPerDay - 1), m \in {0, 30, 59}}
\* the durations of up to a day clicked or typed in the clock-time
\* specification
DayDurationInputs == {0, 45, 90, 1439}
\* the requests that call updateWorkout at the same time
Requests == {"first", "second"}
\* no request has called updateWorkout yet
NoRequests == [r \in Requests |-> [pc |-> "idle"]]
\* inputs of the concurrent updates: a name or none, a start on either day
ConcurrentDataInputs == [name : {{}, {"Leg Day"}, {"Push"}}, startedAt : {0, DayLen}]

VARIABLES
    workouts,          \* rows of table workouts, in insertion order
    workoutsIdSeq,     \* last value handed out by the serial of workouts.id
    workoutExercises,  \* rows of table workout_exercises, in insertion order
    workoutExercisesIdSeq, \* last value of the serial of workout_exercises.id
    sets,              \* rows of table sets, in insertion order
    setsIdSeq,         \* last value of the serial of sets.id
    exercises,         \* rows of table exercises
    exercisesIdSeq,    \* last value of the serial of exercises.id
    now,               \* the clock read by new Date()
    tz,                \* offset of the server's local time to the epoch, ticks
    call,              \* the last repository call and what it returned
    pending,           \* the updateWorkout statements in flight, by request
    form               \* the field values and time mode of EditWorkoutForm

vars == << workouts, workoutsIdSeq, workoutExercises, workoutExercisesIdSeq,
          sets, setsIdSeq, exercises, exercisesIdSeq, now, tz, call, pending,
          form >>

\* ---------------------------------------------------------------- helpers
Range(s) == {s[i] : i \in DOMAIN s}

\* JavaScript `x || null` on an optional string: undefined and "" are falsy
OrNull(name) == IF name = {} \/ name = {""} THEN {} ELSE name

\* serial column: nextval of the sequence
\* (variant: a sequence that does not advance)
NextvalStuck(last) == last
Nextval(last) == last + 1

\* The orderings of s that ORDER BY ... ASC may return, keys[i] being the sort
\* key of s[i] (rows with equal keys come back in any order)
SortedBy(s, keys) ==
    LET n == Len(s)
    IN  {[i \in 1..n |-> s[p[i]]] : p \in
            {q \in Permutations(1..n) :
                \A i \in 1..n : i < n => keys[q[i]] <= keys[q[i + 1]]}}

\* ORDER BY on a varchar column compares strings; the strings of the model in
\* ascending order, and the position of a string in it
CollationOrder == << "Back", "Bench Press", "Chest", "Deadlift", "Legs", "Squat" >>
Collate(str) == CHOOSE i \in DOMAIN CollationOrder : CollationOrder[i] = str

\* ------------------------------------------------------------- local dates
\* Date.prototype getters/setters in the server's local time
LocalTime(t) == t + tz
GetDate(t) == LocalTime(t) \div DayLen
TimeOfDay(t) == LocalTime(t) % DayLen
\* d.setHours(0, 0, 0, 0)
SetHoursZero(t) == t - TimeOfDay(t)
\* d.setDate(n): same local time of day on calendar day n
SetDate(t, n) == n * DayLen + TimeOfDay(t) - tz

StartOfDay(date) == SetHoursZero(date)
\* (variant: the end bound without its setHours(0, 0, 0, 0))
EndOfDayNoReset(date) == SetDate(date, GetDate(date) + 1)
EndOfDay(date) == SetHoursZero(SetDate(date, GetDate(date) + 1))

\* ------------------------------------------------------------ query layer
\* with: { workoutExercises: { with: { exercise: true }, orderBy: asc(order) } }
\* mapped to { id: we.exercise.id, name: we.exercise.name, order: we.order }
LinkOrderKey(we) == we.order
ExerciseOf(we) == CHOOSE e \in Range(exercises) : e.id = we.exerciseId
\* (variant: the links in insertion order, without orderBy)
LinksUnordered(mine) == {mine}
LinksOrdered(mine) == SortedBy(mine, [i \in DOMAIN mine |-> LinkOrderKey(mine[i])])
ExerciseLists(workoutId) ==
    LET mine == SelectSeq(workoutExercises, LAMBDA we : we.workoutId = workoutId)
    IN  {[i \in 1..Len(s) |->
            [id |-> ExerciseOf(s[i]).id, name |-> ExerciseOf(s[i]).name,
             order |-> s[i].order]] : s \in LinksOrdered(mine)}

WithExercises(w, exs) ==
    [id |-> w.id, name |-> w.name, startedAt |-> w.startedAt,
     completedAt |-> w.completedAt, exercises |-> exs]

\* where: and(eq(workouts.id, workoutId), eq(workouts.clerkUserId, userId))
\* (variant: without the clerkUserId condition)
MatchesIdOnly(w, workoutId, userId) == w.id = workoutId
MatchesIdAndUser(w, workoutId, userId) ==
    w.id = workoutId /\ w.clerkUserId = userId

\* where: and(eq(clerkUserId, userId), gte(startedAt, startOfDay), lt(startedAt, endOfDay))
\* (variant: without the clerkUserId condition)
MatchesDayOnly(w, userId, date) ==
    /\ w.startedAt >= StartOfDay(date)
    /\ w.startedAt < EndOfDay(date)
MatchesUserAndDay(w, userId, date) ==
    /\ w.clerkUserId = userId
    /\ w.startedAt >= StartOfDay(date)
    /\ w.startedAt < EndOfDay(date)

StartedAtKey(w) == w.startedAt
\* orderBy: asc(workouts.startedAt)
\* (variant: the rows in insertion order, without orderBy)
WorkoutsUnordered(found) == {found}
WorkoutsOrdered(found) == SortedBy(found, [i \in DOMAIN found |-> StartedAtKey(found[i])])

\* the values getWorkoutById can return on table tbl: {} is null
WorkoutByIdIn(tbl, workoutId, userId) ==
    LET found == SelectSeq(tbl, LAMBDA w : MatchesIdAndUser(w, workoutId, userId))
    IN  IF Len(found) = 0 THEN {{}}
        ELSE {{WithExercises(found[1], exs)} : exs \in ExerciseLists(found[1].id)}

\* userWorkouts.map(...): every row with one of the orderings of its exercises
RECURSIVE AttachExercises(_)
AttachExercises(s) ==
    IF s = << >> THEN {<< >>}
    ELSE {<< WithExercises(Head(s), exs) >> \o rest :
            exs \in ExerciseLists(Head(s).id), rest \in AttachExercises(Tail(s))}

\* the sequences getWorkoutsByDate can return on table tbl
WorkoutsByDateIn(tbl, userId, date) ==
    LET found == SelectSeq(tbl, LAMBDA w : MatchesUserAndDay(w, userId, date))
    IN  UNION {AttachExercises(s) : s \in WorkoutsOrdered(found)}

\* orderBy(asc(exercises.category), asc(exercises.name))
\* (variant: ordered by category alone)
CategoryKey(e) == Collate(e.category) * (Len(CollationOrder) + 1)
CategoryThenNameKey(e) ==
    Collate(e.category) * (Len(CollationOrder) + 1) + Collate(e.name)

\* the sequences getAllExercises can return on table tbl:
\* select({id, name, category}).from(exercises).orderBy(...)
AllExercisesIn(tbl) ==
    SortedBy([i \in DOMAIN tbl |->
                [id |-> tbl[i].id, name |-> tbl[i].name, category |-> tbl[i].category]],
             [i \in DOMAIN tbl |-> CategoryThenNameKey(tbl[i])])

\* ------------------------------------------------------------------ actions
\* createWorkout(userId, data): insert(workouts).values({...}).returning({id})
\* (variant: the row is inserted as completed)
NewWorkoutRowCompleted(userId, data) ==
    [id |-> Nextval(workoutsIdSeq), clerkUserId |-> userId,
     name |-> OrNull(data.name), startedAt |-> data.startedAt,
     completedAt |-> {now}, createdAt |-> now, updatedAt |-> now]
\* (variant: startedAt left to the column default, now)
NewWorkoutRowDefaultStart(userId, data) ==
    [id |-> Nextval(workoutsIdSeq), clerkUserId |-> userId,
     name |-> OrNull(data.name), startedAt |-> now,
     completedAt |-> {}, createdAt |-> now, updatedAt |-> now]
NewWorkoutRow(userId, data) ==
    [id |-> Nextval(workoutsIdSeq), clerkUserId |-> userId,
     name |-> OrNull(data.name), startedAt |-> data.startedAt,
     completedAt |-> {}, createdAt |-> now, updatedAt |-> now]

CreateWorkout(userId, data) ==
    /\ Len(workouts) < MaxWorkouts
    /\ workouts' = Append(workouts, NewWorkoutRow(userId, data))
    /\ workoutsIdSeq' = Nextval(workoutsIdSeq)
    /\ call' = [op |-> "createWorkout", userId |-> userId, data |-> data,
                val |-> [id |-> NewWorkoutRow(userId, data).id]]
    /\ UNCHANGED << workoutExercises, exercises, now, tz >>
    /\ UNCHANGED << workoutExercisesIdSeq, sets, setsIdSeq, exercisesIdSeq, pending, form >>

\* updateWorkout(userId, workoutId, data):
\* update(workouts).set({name, startedAt, updatedAt: new Date()}).where(...).returning({id})
\* (variant: the update also clears the owner column)
UpdatedRowDropsOwner(w, data) ==
    [w EXCEPT !.name = OrNull(data.name), !.startedAt = data.startedAt,
              !.updatedAt = now, !.clerkUserId = ""]
\* (variant: the update also overwrites createdAt)
UpdatedRowResetsCreated(w, data) ==
    [w EXCEPT !.name = OrNull(data.name), !.startedAt = data.startedAt,
              !.updatedAt = now, !.createdAt = now]
\* (variant: a name that was not sent leaves the stored name)
UpdatedRowMergesName(w, data) ==
    [w EXCEPT !.name = IF data.name = {} THEN @ ELSE OrNull(data.name),
              !.startedAt = data.startedAt, !.updatedAt = now]
UpdatedRow(w, data) ==
    [w EXCEPT !.name = OrNull(data.name), !.startedAt = data.startedAt,
              !.updatedAt = now]

\* (variant: the update matches on the id alone)
UpdateTargetsAnyOwner(userId, workoutId) ==
    {i \in DOMAIN workouts : workouts[i].id = workoutId}
UpdateTargets(userId, workoutId) ==
    {i \in DOMAIN workouts : MatchesIdAndUser(workouts[i], workoutId, userId)}

\* const [result] = ...returning(...); return result ?? null
\* (variant: no row updated is reported as a fault)
UpdateReturnOrFault(userId, workoutId) ==
    IF UpdateTargets(userId, workoutId) = {} THEN {"NotFound"}
    ELSE {[id |-> workouts[CHOOSE i \in UpdateTargets(userId, workoutId) :
                    \A j \in UpdateTargets(userId, workoutId) : i <= j].id]}
UpdateReturn(userId, workoutId) ==
    IF UpdateTargets(userId, workoutId) = {} THEN {}
    ELSE {[id |-> workouts[CHOOSE i \in UpdateTargets(userId, workoutId) :
                    \A j \in UpdateTargets(userId, workoutId) : i <= j].id]}

\* the table after update(workouts).set({...}).where(...)
UpdatedWorkouts(userId, workoutId, data) ==
    [i \in DOMAIN workouts |->
        IF i \in UpdateTargets(userId, workoutId)
        THEN UpdatedRow(workouts[i], data) ELSE workouts[i]]

UpdateWorkout(userId, workoutId, data) ==
    /\ workouts' = UpdatedWorkouts(userId, workoutId, data)
    /\ call' = [op |-> "updateWorkout", userId |-> userId, workoutId |-> workoutId,
                data |-> data, val |-> UpdateReturn(userId, workoutId)]
    /\ UNCHANGED << workoutsIdSeq, workoutExercises, exercises, now, tz >>
    /\ UNCHANGED << workoutExercisesIdSeq, sets, setsIdSeq, exercisesIdSeq, pending, form >>

\* updateWorkout called by concurrent requests. A request first builds its
\* statement: the set-values name, startedAt and updatedAt: new Date(), read
\* at that moment; it then awaits the database
UpdateWorkoutIssue(r, userId, workoutId, data) ==
    /\ pending[r].pc = "idle"
    /\ pending' = [pending EXCEPT ![r] =
                      [pc |-> "issued", userId |-> userId, workoutId |-> workoutId,
                       data |-> data, updatedAt |-> now]]
    /\ UNCHANGED << workouts, workoutsIdSeq, workoutExercises, exercises, now, tz, call >>
    /\ UNCHANGED << workoutExercisesIdSeq, sets, setsIdSeq, exercisesIdSeq, form >>

\* the row written by the statement of request p: one UPDATE ... SET of the
\* three columns
\* (variant: startedAt is written only over a row not updated since the
\* statement was built)
StatementRowKeepsNewerStart(w, p) ==
    [w EXCEPT !.name = OrNull(p.data.name),
              !.startedAt = IF w.updatedAt > p.updatedAt THEN @ ELSE p.data.startedAt,
              !.updatedAt = p.updatedAt]
StatementRow(w, p) ==
    [w EXCEPT !.name = OrNull(p.data.name), !.startedAt = p.data.startedAt,
              !.updatedAt = p.updatedAt]

\* the database executes the single UPDATE statement of a request in one
\* step, and the request returns result ?? null
UpdateWorkoutExecute(r) ==
    /\ pending[r].pc = "issued"
    /\ workouts' = [i \in DOMAIN workouts |->
                      IF i \in UpdateTargets(pending[r].userId, pending[r].workoutId)
                      THEN StatementRow(workouts[i], pending[r]) ELSE workouts[i]]
    /\ pending' = [pending EXCEPT ![r] =
                      [pc |-> "returned", userId |-> pending[r].userId,
                       workoutId |-> pending[r].workoutId, data |-> pending[r].data,
                       updatedAt |-> pending[r].updatedAt,
                       val |-> UpdateReturn(pending[r].userId, pending[r].workoutId)]]
    /\ UNCHANGED << workoutsIdSeq, workoutExercises, exercises, now, tz, call >>
    /\ UNCHANGED << workoutExercisesIdSeq, sets, setsIdSeq, exercisesIdSeq, form >>

\* getWorkoutById(workoutId, userId)
GetWorkoutById(workoutId, userId) ==
    /\ \E r \in WorkoutByIdIn(workouts, workoutId, userId) :
          call' = [op |-> "getWorkoutById", userId |-> userId,
                   workoutId |-> workoutId, val |-> r]
    /\ UNCHANGED << workouts, workoutsIdSeq, workoutExercises, exercises, now, tz >>
    /\ UNCHANGED << workoutExercisesIdSeq, sets, setsIdSeq, exercisesIdSeq, pending, form >>

\* the caller's Date object after getWorkoutsByDate(userId, date): both
\* bounds are computed on copies, new Date(date)
\* (variant: setHours(0, 0, 0, 0) called on the argument itself)
DateArgAfterSetHours(date) == SetHoursZero(date)
DateArgAfter(date) == date

\* getWorkoutsByDate(userId, date)
GetWorkoutsByDate(userId, date) ==
    /\ \E r \in WorkoutsByDateIn(workouts, userId, date) :
          call' = [op |-> "getWorkoutsByDate", userId |-> userId,
                   date |-> date, dateAfter |-> DateArgAfter(date), val |-> r]
    /\ UNCHANGED << workouts, workoutsIdSeq, workoutExercises, exercises, now, tz >>
    /\ UNCHANGED << workoutExercisesIdSeq, sets, setsIdSeq, exercisesIdSeq, pending, form >>

\* a row of workout_exercises is inserted (no repository function writes the
\* table; the foreign keys of the schema reject dangling references)
InsertWorkoutExercise(workoutId, exerciseId, order) ==
    /\ Len(workoutExercises) < MaxLinks
    /\ \E w \in Range(workouts) : w.id = workoutId
    /\ \E e \in Range(exercises) : e.id = exerciseId
    /\ workoutExercises' = Append(workoutExercises,
            [id |-> Nextval(workoutExercisesIdSeq), workoutId |-> workoutId,
             exerciseId |-> exerciseId, order |-> order])
    /\ workoutExercisesIdSeq' = Nextval(workoutExercisesIdSeq)
    /\ UNCHANGED << workouts, workoutsIdSeq, exercises, now, tz, call >>
    /\ UNCHANGED << sets, setsIdSeq, exercisesIdSeq, pending, form >>

\* getAllExercises()
GetAllExercises ==
    /\ \E r \in AllExercisesIn(exercises) :
          call' = [op |-> "getAllExercises", val |-> r]
    /\ UNCHANGED << workouts, workoutsIdSeq, workoutExercises, exercises, now, tz >>
    /\ UNCHANGED << workoutExercisesIdSeq, sets, setsIdSeq, exercisesIdSeq, pending, form >>

\* a row of exercises is inserted by the seeding (no repository function writes
\* the table); name is unique, so a second row of the same name is rejected
SeedExercise(name, category) ==
    /\ Len(exercises) < MaxExercises
    /\ \A e \in Range(exercises) : e.name # name
    /\ exercises' = Append(exercises,
            [id |-> Nextval(exercisesIdSeq), name |-> name, category |-> category])
    /\ exercisesIdSeq' = Nextval(exercisesIdSeq)
    /\ UNCHANGED << workouts, workoutsIdSeq, workoutExercises, now, tz, call >>
    /\ UNCHANGED << workoutExercisesIdSeq, sets, setsIdSeq, pending, form >>

\* --------------------------------------------------------- server actions
\* z.string().max(255, "Name is too long").optional()
MaxNameLength == 255
NameIsValid(name) == \A n \in name : Len(n) <= MaxNameLength
\* z.coerce.date()
DateIsValid(startedAt) == startedAt # {}
\* z.coerce.number().int().positive("Invalid workout ID")
IdIsValid(id) == id # {} /\ \A n \in id : n > 0

\* createWorkoutSchema.parse(params): {} when it throws, else the validated
\* object, which holds the declared keys only
CreateWorkoutSchema(params) ==
    IF NameIsValid(params.name) /\ DateIsValid(params.startedAt)
    THEN {[name |-> params.name,
           startedAt |-> CHOOSE t \in params.startedAt : TRUE]}
    ELSE {}

\* updateWorkoutSchema.parse(params)
UpdateWorkoutSchema(params) ==
    IF IdIsValid(params.id) /\ NameIsValid(params.name) /\ DateIsValid(params.startedAt)
    THEN {[id |-> CHOOSE n \in params.id : TRUE, name |-> params.name,
           startedAt |-> CHOOSE t \in params.startedAt : TRUE]}
    ELSE {}

\* startedAt.toISOString().split("T")[0]: the calendar day in UTC
ToISODate(t) == t \div DayLen

\* the statements of createWorkoutAction, in program order
CreateActionSteps == << "parse", "auth", "createWorkout", "revalidatePath", "redirect" >>
\* the statements of updateWorkoutAction, in program order
\* (variant: the dashboard is revalidated before the update is attempted)
UpdateActionStepsRevalidateFirst ==
    << "parse", "auth", "revalidatePath", "updateWorkout", "revalidatePath", "redirect" >>
UpdateActionSteps ==
    << "parse", "auth", "updateWorkout", "revalidatePath", "revalidatePath", "redirect" >>
\* the statements an action ran when statement `last` was the last it ran,
\* because that one threw or because it is the final one
RunUntil(steps, last) ==
    SubSeq(steps, 1, CHOOSE i \in DOMAIN steps :
                        steps[i] = last /\ \A j \in 1..(i - 1) : steps[j] # last)

\* the record of a server action that threw before it reached the repository
ActionThrew(op, params, session, error) ==
    [op |-> op, params |-> params, auth |-> session, threw |-> {error},
     repo |-> {}, revalidated |-> {}, redirect |-> {},
     steps |-> RunUntil(IF op = "createWorkoutAction" THEN CreateActionSteps
                        ELSE UpdateActionSteps,
                        IF error = "ZodError" THEN "parse" ELSE "auth")]

\* the owner a server action hands to the repository: userId of auth()
\* (variant: the userId of params when the client sent one)
OwnerFromParams(params, session) ==
    IF params.userId # {} THEN CHOOSE u \in params.userId : TRUE
    ELSE CHOOSE u \in session : TRUE
OwnerFromAuth(params, session) == CHOOSE u \in session : TRUE

\* createWorkoutAction(params)
CreateWorkoutAction(params, session) ==
    /\ IF CreateWorkoutSchema(params) = {}
       THEN /\ call' = ActionThrew("createWorkoutAction", params, session, "ZodError")
            /\ UNCHANGED << workouts, workoutsIdSeq >>
       ELSE IF session = {}
       THEN /\ call' = ActionThrew("createWorkoutAction", params, session, "Unauthorized")
            /\ UNCHANGED << workouts, workoutsIdSeq >>
       ELSE LET validated == CHOOSE v \in CreateWorkoutSchema(params) : TRUE
                userId == OwnerFromAuth(params, session)
                data == [name |-> validated.name, startedAt |-> validated.startedAt]
            IN  /\ workoutsIdSeq < MaxActionWorkouts
                /\ workouts' = Append(workouts, NewWorkoutRow(userId, data))
                /\ workoutsIdSeq' = Nextval(workoutsIdSeq)
                /\ call' =
                      [op |-> "createWorkoutAction", params |-> params,
                       auth |-> session, threw |-> {},
                       repo |-> {[fn |-> "createWorkout", userId |-> userId,
                                  data |-> data]},
                       revalidated |-> {"/dashboard"},
                       redirect |-> {"/dashboard?date=" \o
                                     ToString(ToISODate(validated.startedAt))},
                       steps |-> RunUntil(CreateActionSteps, "redirect")]
    /\ UNCHANGED << workoutExercises, exercises, now, tz >>
    /\ UNCHANGED << workoutExercisesIdSeq, sets, setsIdSeq, exercisesIdSeq, pending, form >>

\* updateWorkoutAction(params)
UpdateWorkoutAction(params, session) ==
    /\ IF UpdateWorkoutSchema(params) = {}
       THEN /\ call' = ActionThrew("updateWorkoutAction", params, session, "ZodError")
            /\ UNCHANGED workouts
       ELSE IF session = {}
       THEN /\ call' = ActionThrew("updateWorkoutAction", params, session, "Unauthorized")
            /\ UNCHANGED workouts
       ELSE LET validated == CHOOSE v \in UpdateWorkoutSchema(params) : TRUE
                userId == OwnerFromAuth(params, session)
                data == [name |-> validated.name, startedAt |-> validated.startedAt]
                repo == {[fn |-> "updateWorkout", userId |-> userId,
                          workoutId |-> validated.id, data |-> data]}
            IN  /\ workouts' = UpdatedWorkouts(userId, validated.id, data)
                /\ call' =
                      IF UpdateReturn(userId, validated.id) = {}
                      THEN [op |-> "updateWorkoutAction", params |-> params,
                            auth |-> session,
                            threw |-> {"Workout not found or you don't have permission to edit it"},
                            repo |-> repo, revalidated |-> {}, redirect |-> {},
                            steps |-> RunUntil(UpdateActionSteps, "updateWorkout")]
                      ELSE [op |-> "updateWorkoutAction", params |-> params,
                            auth |-> session, threw |-> {}, repo |-> repo,
                            revalidated |->
                                {"/dashboard",
                                 "/dashboard/workout/" \o ToString(validated.id)},
                            redirect |-> {"/dashboard?date=" \o
                                          ToString(ToISODate(validated.startedAt))},
                            steps |-> RunUntil(UpdateActionSteps, "redirect")]
    /\ UNCHANGED << workoutsIdSeq, workoutExercises, exercises, now, tz >>
    /\ UNCHANGED << workoutExercisesIdSeq, sets, setsIdSeq, exercisesIdSeq, pending, form >>

\* -------------------------------------------------------------- edit form
\* EditWorkoutForm of dashboard/workout/[workoutId]/page.tsx; timestamps of
\* the form are local minutes

\* str.padStart(2, "0")
PadStart2(str) == IF Len(str) < 2 THEN "0" \o str ELSE str

\* the integers whose decimal strings the form reads: clock fields and typed
\* minutes
ParseRange ==
    ((0 - MinutesPerHour)..MinutesPerHour) \cup {45, 90, 120, 1440, 1500}
\* parseInt(str) for the decimal strings of ParseRange, with or without a
\* leading zero
ParseTable ==
    [str \in {ToString(n) : n \in ParseRange} \cup
              {PadStart2(ToString(n)) : n \in ParseRange} |->
        CHOOSE n \in ParseRange : str = ToString(n) \/ str = PadStart2(ToString(n))]
ParseInt(str) == ParseTable[str]

\* !x of an optional string: undefined and "" are falsy
Falsy(x) == x = {} \/ x = {""}

\* a % b of JavaScript: the result has the sign of a
JsRem(a, b) == IF a >= 0 THEN a % b ELSE 0 - ((0 - a) % b)

\* hourOptions: "00" .. "23"
hourOptions == {PadStart2(ToString(i)) : i \in 0..(HoursPerDay - 1)}
\* minuteOptions: "00", "05", .. "55"
minuteOptions == {PadStart2(ToString(i * 5)) : i \in 0..11}
quickDurations == {30, 45, 60, 75, 90, 120}

\* calculateDurationFromTimes(startHour, startMinute, endHour, endMinute): {}
\* is null
\* (variant: without the correction for crossing midnight)
CalculateDurationFromTimesNoWrap(startHour, startMinute, endHour, endMinute) ==
    IF Falsy(endHour) \/ Falsy(endMinute) THEN {}
    ELSE {(ParseInt(CHOOSE h \in endHour : TRUE) * MinutesPerHour
             + ParseInt(CHOOSE m \in endMinute : TRUE))
          - (ParseInt(startHour) * MinutesPerHour + ParseInt(startMinute))}
CalculateDurationFromTimes(startHour, startMinute, endHour, endMinute) ==
    IF Falsy(endHour) \/ Falsy(endMinute) THEN {}
    ELSE LET startTotal == ParseInt(startHour) * MinutesPerHour + ParseInt(startMinute)
             endTotal == ParseInt(CHOOSE h \in endHour : TRUE) * MinutesPerHour
                           + ParseInt(CHOOSE m \in endMinute : TRUE)
             duration == endTotal - startTotal
         IN  {IF duration < 0 THEN duration + MinutesPerDay ELSE duration}

\* calculateEndTimeFromDuration(startHour, startMinute, durationMinutes)
CalculateEndTimeFromDuration(startHour, startMinute, durationMinutes) ==
    LET startTotal == ParseInt(startHour) * MinutesPerHour + ParseInt(startMinute)
        sum == startTotal + durationMinutes
        endTotal == IF sum >= MinutesPerDay THEN sum - MinutesPerDay ELSE sum
    IN  [hour |-> PadStart2(ToString(endTotal \div MinutesPerHour)),
         minute |-> PadStart2(ToString(JsRem(endTotal, MinutesPerHour)))]

\* getInitialDuration(startedAt, completedAt)
GetInitialDuration(startedAt, completedAt) == {c - startedAt : c \in completedAt}

\* format(date, "HH") and format(date, "mm")
FormatHH(t) == PadStart2(ToString((t % MinutesPerDay) \div MinutesPerHour))
FormatMm(t) == PadStart2(ToString(t % MinutesPerHour))

\* useState and useForm({defaultValues}) of the form opened for a workout
DefaultValues(workout) ==
    [date |-> workout.startedAt,
     startHour |-> FormatHH(workout.startedAt),
     startMinute |-> FormatMm(workout.startedAt),
     endHour |-> {FormatHH(c) : c \in workout.completedAt},
     endMinute |-> {FormatMm(c) : c \in workout.completedAt},
     durationMinutes |-> GetInitialDuration(workout.startedAt, workout.completedAt),
     timeMode |-> IF workout.completedAt # {} THEN "endTime" ELSE "duration"]

\* displayDuration: the duration the form shows, {} is null
DisplayDuration ==
    IF form.timeMode = "duration" /\ form.durationMinutes \notin {{}, {0}}
    THEN form.durationMinutes
    ELSE CalculateDurationFromTimes(form.startHour, form.startMinute,
                                    form.endHour, form.endMinute)

\* field.onChange of the startHour and startMinute selects
SetStartHour(value) ==
    /\ form' = [form EXCEPT !.startHour = value]
    /\ UNCHANGED << workouts, workoutsIdSeq, workoutExercises, exercises, now, tz, call >>
    /\ UNCHANGED << workoutExercisesIdSeq, sets, setsIdSeq, exercisesIdSeq, pending >>
SetStartMinute(value) ==
    /\ form' = [form EXCEPT !.startMinute = value]
    /\ UNCHANGED << workouts, workoutsIdSeq, workoutExercises, exercises, now, tz, call >>
    /\ UNCHANGED << workoutExercisesIdSeq, sets, setsIdSeq, exercisesIdSeq, pending >>

\* setTimeMode(v) of the tabs
SetTimeMode(v) ==
    /\ form' = [form EXCEPT !.timeMode = v]
    /\ UNCHANGED << workouts, workoutsIdSeq, workoutExercises, exercises, now, tz, call >>
    /\ UNCHANGED << workoutExercisesIdSeq, sets, setsIdSeq, exercisesIdSeq, pending >>

\* handleDurationChange(minutes)
HandleDurationChange(minutes) ==
    /\ form' = [form EXCEPT
                  !.durationMinutes = {minutes},
                  !.endHour = {CalculateEndTimeFromDuration(
                                  form.startHour, form.startMinute, minutes).hour},
                  !.endMinute = {CalculateEndTimeFromDuration(
                                  form.startHour, form.startMinute, minutes).minute}]
    /\ call' = [op |-> "handleDurationChange", startHour |-> form.startHour,
                startMinute |-> form.startMinute, minutes |-> minutes,
                val |-> CalculateEndTimeFromDuration(
                           form.startHour, form.startMinute, minutes)]
    /\ UNCHANGED << workouts, workoutsIdSeq, workoutExercises, exercises, now, tz >>
    /\ UNCHANGED << workoutExercisesIdSeq, sets, setsIdSeq, exercisesIdSeq, pending >>

\* onChange of the custom-minutes input: an empty value clears duration and
\* end time, any other is handed on as parseInt(value) || 0
CustomMinutesChange(value) ==
    IF value = ""
    THEN /\ form' = [form EXCEPT !.durationMinutes = {}, !.endHour = {},
                                  !.endMinute = {}]
         /\ call' = [op |-> "customMinutesChange", value |-> value]
         /\ UNCHANGED << workouts, workoutsIdSeq, workoutExercises, exercises, now, tz >>
         /\ UNCHANGED << workoutExercisesIdSeq, sets, setsIdSeq, exercisesIdSeq, pending >>
    ELSE HandleDurationChange(ParseInt(value))

\* onClick of the Clear button of the end time
ClearEndTime ==
    /\ form' = [form EXCEPT !.durationMinutes = {}, !.endHour = {}, !.endMinute = {}]
    /\ UNCHANGED << workouts, workoutsIdSeq, workoutExercises, exercises, now, tz, call >>
    /\ UNCHANGED << workoutExercisesIdSeq, sets, setsIdSeq, exercisesIdSeq, pending >>

\* handleEndTimeChange(field, value)
HandleEndTimeChange(field, value) ==
    LET endHour == IF field = "endHour" THEN {value} ELSE form.endHour
        endMinute == IF field = "endMinute" THEN {value} ELSE form.endMinute
        duration == CalculateDurationFromTimes(form.startHour, form.startMinute,
                                               endHour, endMinute)
    IN  /\ form' = [form EXCEPT
                      !.endHour = endHour, !.endMinute = endMinute,
                      !.durationMinutes = IF duration # {} THEN duration ELSE @]
        /\ call' = [op |-> "handleEndTimeChange", field |-> field, value |-> value,
                    val |-> duration]
        /\ UNCHANGED << workouts, workoutsIdSeq, workoutExercises, exercises, now, tz >>
        /\ UNCHANGED << workoutExercisesIdSeq, sets, setsIdSeq, exercisesIdSeq, pending >>

\* date.setHours(hours, minutes, 0, 0) on a copy of date
SetHours(date, hours, minutes) ==
    (date \div MinutesPerDay) * MinutesPerDay + hours * MinutesPerHour + minutes

\* formSchema, which form.handleSubmit checks before onSubmit runs:
\* durationMinutes: z.number().min(0).optional()
FormSchema(data) == \A d \in data.durationMinutes : d >= 0

\* onSubmit(data) up to its await: it builds startedAt and completedAt and
\* sends them to updateWorkoutAction
OnSubmit ==
    /\ FormSchema(form)
    /\ call' = [op |-> "onSubmit",
                params |->
                   [startedAt |-> SetHours(form.date, ParseInt(form.startHour),
                                           ParseInt(form.startMinute)),
                    completedAt |->
                       IF Falsy(form.endHour) \/ Falsy(form.endMinute) THEN {}
                       ELSE {SetHours(form.date,
                                      ParseInt(CHOOSE h \in form.endHour : TRUE),
                                      ParseInt(CHOOSE m \in form.endMinute : TRUE))}],
                displayDuration |-> DisplayDuration]
    /\ UNCHANGED << workouts, workoutsIdSeq, workoutExercises, exercises, now, tz, form >>
    /\ UNCHANGED << workoutExercisesIdSeq, sets, setsIdSeq, exercisesIdSeq, pending >>

\* ------------------------------------------------------------------ pages
\* new Date(params.date + "T00:00:00"): local midnight of the day, {} when
\* the string is no date
\* (variant: new Date(params.date), which reads a date-only string as UTC)
ParseUTCMidnight(str) == {n * DayLen : n \in str}
ParseLocalMidnight(str) == {n * DayLen - tz : n \in str}
\* params.date ? new Date(params.date + "T00:00:00") : new Date(), and
\* new Date() again when that is an Invalid Date
ValidDate(dateParam) ==
    IF dateParam = {} THEN now
    ELSE IF UNION {ParseLocalMidnight(str) : str \in dateParam} = {} THEN now
    ELSE CHOOSE t \in UNION {ParseLocalMidnight(str) : str \in dateParam} : TRUE

\* the record of a page that redirected to /sign-in
PageRedirected(op, session) ==
    [op |-> op, auth |-> session, redirect |-> {"/sign-in"}, notFound |-> FALSE,
     data |-> {}, rendered |-> {}]

\* DashboardPage({ searchParams }) of src/app/dashboard/page.tsx
DashboardPage(session, dateParam) ==
    /\ IF session = {}
       THEN call' = PageRedirected("DashboardPage", session)
       ELSE LET userId == CHOOSE u \in session : TRUE
            IN  \E r \in WorkoutsByDateIn(workouts, userId, ValidDate(dateParam)) :
                  call' = [op |-> "DashboardPage", auth |-> session,
                           redirect |-> {}, notFound |-> FALSE,
                           searchParams |-> dateParam,
                           data |-> {[fn |-> "getWorkoutsByDate", userId |-> userId,
                                      date |-> ValidDate(dateParam)]},
                           rendered |-> {[selectedDate |-> ValidDate(dateParam),
                                          workouts |-> r]}]
    /\ UNCHANGED << workouts, workoutsIdSeq, workoutExercises, exercises, now, tz >>
    /\ UNCHANGED << workoutExercisesIdSeq, sets, setsIdSeq, exercisesIdSeq, pending, form >>

\* redirect(`/dashboard?date=${...}`) of a server action that succeeded: the
\* browser requests that URL with the session of the action, and
\* searchParams.date of DashboardPage is the day written in it
FollowRedirect ==
    /\ call.op \in {"createWorkoutAction", "updateWorkoutAction"}
    /\ \E n \in RedirectDays :
          /\ call.redirect = {"/dashboard?date=" \o ToString(n)}
          /\ DashboardPage(call.auth, {{n}})

\* handleDateSelect(newDate) of WorkoutCalendar, in a browser whose local time
\* is clientTz ticks off the epoch: nothing when no date is selected, else
\* router.push of /dashboard?date= with the local year-month-day of newDate
HandleDateSelect(session, newDate, clientTz) ==
    /\ call' = [op |-> "handleDateSelect", auth |-> session, newDate |-> newDate,
                clientTz |-> clientTz,
                pushed |-> {"/dashboard?date=" \o ToString((t + clientTz) \div DayLen) :
                              t \in newDate}]
    /\ UNCHANGED << workouts, workoutsIdSeq, workoutExercises, exercises, now, tz >>
    /\ UNCHANGED << workoutExercisesIdSeq, sets, setsIdSeq, exercisesIdSeq, pending, form >>

\* the navigation of router.push: the server renders DashboardPage for the
\* pushed URL, searchParams.date being the day written in it
FollowPush ==
    /\ call.op = "handleDateSelect"
    /\ \E n \in CalendarDays :
          /\ call.pushed = {"/dashboard?date=" \o ToString(n)}
          /\ DashboardPage(call.auth, {{n}})

\* the hard-coded workouts of the dashboard page of app/dashboard/page.tsx
mockWorkouts ==
    << [id |-> "1", name |-> "Upper Body Strength"],
       [id |-> "2", name |-> "Cardio Session"] >>

\* DashboardPage() of app/dashboard/page.tsx, a client component: it reads no
\* session and no stored data and renders mockWorkouts
DashboardPageMock(session) ==
    /\ call' = [op |-> "DashboardPage", auth |-> session,
                redirect |-> {}, notFound |-> FALSE, data |-> {},
                rendered |-> {[selectedDate |-> now, workouts |-> mockWorkouts]}]
    /\ UNCHANGED << workouts, workoutsIdSeq, workoutExercises, exercises, now, tz >>
    /\ UNCHANGED << workoutExercisesIdSeq, sets, setsIdSeq, exercisesIdSeq, pending, form >>

\* NewWorkoutPage({ searchParams })
NewWorkoutPage(session, dateParam) ==
    /\ IF session = {}
       THEN call' = PageRedirected("NewWorkoutPage", session)
       ELSE call' = [op |-> "NewWorkoutPage", auth |-> session,
                     redirect |-> {}, notFound |-> FALSE, data |-> {},
                     rendered |-> {[defaultDate |-> ValidDate(dateParam)]}]
    /\ UNCHANGED << workouts, workoutsIdSeq, workoutExercises, exercises, now, tz >>
    /\ UNCHANGED << workoutExercisesIdSeq, sets, setsIdSeq, exercisesIdSeq, pending, form >>

\* EditWorkoutPage({ params })
EditWorkoutPage(session, workoutIdNum) ==
    /\ IF session = {}
       THEN call' = PageRedirected("EditWorkoutPage", session)
       ELSE IF workoutIdNum = {}
       THEN call' = [op |-> "EditWorkoutPage", auth |-> session,
                     redirect |-> {}, notFound |-> TRUE, data |-> {},
                     rendered |-> {}]
       ELSE LET userId == CHOOSE u \in session : TRUE
                id == CHOOSE n \in workoutIdNum : TRUE
            IN  \E r \in WorkoutByIdIn(workouts, id, userId) :
                  call' = [op |-> "EditWorkoutPage", auth |-> session,
                           redirect |-> {}, notFound |-> (r = {}),
                           data |-> {[fn |-> "getWorkoutById", userId |-> userId,
                                      workoutId |-> id]},
                           rendered |-> {[workout |-> w] : w \in r}]
    /\ UNCHANGED << workouts, workoutsIdSeq, workoutExercises, exercises, now, tz >>
    /\ UNCHANGED << workoutExercisesIdSeq, sets, setsIdSeq, exercisesIdSeq, pending, form >>

\* a row of sets is inserted (no repository function writes the table; the
\* foreign key of the schema rejects a set of a missing workout_exercises row)
InsertSet(workoutExerciseId) ==
    /\ \E we \in Range(workoutExercises) : we.id = workoutExerciseId
    /\ sets' = Append(sets,
            [id |-> Nextval(setsIdSeq), workoutExerciseId |-> workoutExerciseId,
             setNumber |-> 1, weight |-> {}, reps |-> 5])
    /\ setsIdSeq' = Nextval(setsIdSeq)
    /\ UNCHANGED << workouts, workoutsIdSeq, workoutExercises, exercises, now, tz, call >>
    /\ UNCHANGED << workoutExercisesIdSeq, exercisesIdSeq, pending, form >>

\* sets.workoutExerciseId references workoutExercises.id, onDelete: "cascade":
\* the workout_exercises rows whose sets go when the links of workoutId go
\* (variant: the foreign key of sets without its cascade)
CascadedLinksNone(workoutId) == {}
CascadedLinks(workoutId) ==
    {we.id : we \in {x \in Range(workoutExercises) : x.workoutId = workoutId}}

\* a row of workouts is deleted in the database (no repository function
\* deletes); workoutExercises.workoutId references workouts.id, onDelete:
\* "cascade".  val is the number of workouts rows deleted.
DeleteWorkout(workoutId) ==
    /\ workouts' = SelectSeq(workouts, LAMBDA w : w.id # workoutId)
    /\ workoutExercises' =
          SelectSeq(workoutExercises, LAMBDA we : we.workoutId # workoutId)
    /\ sets' = SelectSeq(sets,
          LAMBDA st : st.workoutExerciseId \notin CascadedLinks(workoutId))
    /\ call' = [op |-> "deleteWorkout", workoutId |-> workoutId,
                val |-> Cardinality({i \in DOMAIN workouts : workouts[i].id = workoutId})]
    /\ UNCHANGED << workoutsIdSeq, exercises, now, tz >>
    /\ UNCHANGED << workoutExercisesIdSeq, setsIdSeq, exercisesIdSeq, pending, form >>

\* workoutExercises.exerciseId references exercises.id, onDelete: "restrict":
\* the delete of a referenced exercise is refused
\* (variant: the foreign key without its restrict)
RestrictsDeleteNever(exerciseId) == FALSE
RestrictsDelete(exerciseId) ==
    \E we \in Range(workoutExercises) : we.exerciseId = exerciseId

\* a row of exercises is deleted in the database; error is the fault the
\* statement ends with, {} when it succeeds
DeleteExercise(exerciseId) ==
    /\ IF RestrictsDelete(exerciseId)
       THEN /\ exercises' = exercises
            /\ call' = [op |-> "deleteExercise", exerciseId |-> exerciseId,
                        error |-> {"InvariantViolation"}]
       ELSE /\ exercises' = SelectSeq(exercises, LAMBDA e : e.id # exerciseId)
            /\ call' = [op |-> "deleteExercise", exerciseId |-> exerciseId,
                        error |-> {}]
    /\ UNCHANGED << workouts, workoutsIdSeq, workoutExercises, now, tz >>
    /\ UNCHANGED << workoutExercisesIdSeq, sets, setsIdSeq, exercisesIdSeq, pending, form >>

\* the wall clock advances between calls
Tick ==
    /\ now < MaxNow
    /\ now' = now + 1
    /\ UNCHANGED << workouts, workoutsIdSeq, workoutExercises, exercises, tz, call >>
    /\ UNCHANGED << workoutExercisesIdSeq, sets, setsIdSeq, exercisesIdSeq, pending, form >>

\* ----------------------------------------------------------- specifications
\* Repository: creates, updates and lookups by id of two users, every kind of
\* name, all calls within one tick of the clock
Init ==
    /\ workouts = << >>
    /\ workoutsIdSeq = 0
    /\ workoutExercises = << >>
    /\ workoutExercisesIdSeq = Len(workoutExercises)
    /\ sets = << >>
    /\ setsIdSeq = 0
    /\ exercises = Catalog
    /\ exercisesIdSeq = Len(Catalog)
    /\ now = 0
    /\ tz = 0
    /\ call = [op |-> "none"]
    /\ pending = NoRequests
    /\ form = NoForm

Next ==
    \/ \E u \in Users, d \in DataInputs : CreateWorkout(u, d)
    \/ \E u \in Users, id \in WorkoutIds, d \in UpdateDataInputs : UpdateWorkout(u, id, d)
    \/ \E u \in Users, id \in WorkoutIds : GetWorkoutById(id, u)

Spec == Init /\ [][Next]_vars

\* Clock: creates and updates of two users while the clock advances
NextClock ==
    \/ \E u \in Users, d \in ClockDataInputs : CreateWorkout(u, d)
    \/ \E u \in Users, id \in WorkoutIds, d \in ClockDataInputs : UpdateWorkout(u, id, d)
    \/ Tick

SpecClock == Init /\ [][NextClock]_vars

\* Day windows: creates, updates and queries by date, in several time zones
InitDay ==
    /\ workouts = << >>
    /\ workoutsIdSeq = 0
    /\ workoutExercises = << >>
    /\ workoutExercisesIdSeq = Len(workoutExercises)
    /\ sets = << >>
    /\ setsIdSeq = 0
    /\ exercises = Catalog
    /\ exercisesIdSeq = Len(Catalog)
    /\ now = 0
    /\ tz \in TZOffsets
    /\ call = [op |-> "none"]
    /\ pending = NoRequests
    /\ form = NoForm

NextDay ==
    \/ \E u \in Users, d \in DayDataInputs : CreateWorkout(u, d)
    \/ \E u \in Users, id \in DayWorkoutIds, d \in DayDataInputs : UpdateWorkout(u, id, d)
    \/ \E u \in Users, t \in Times : GetWorkoutsByDate(u, t)

SpecDay == InitDay /\ [][NextDay]_vars

\* Exercise links: two workouts of one user on one day, the second with a
\* link from the start, links of the first inserted in any order
LinkedWorkouts ==
    << [id |-> 1, clerkUserId |-> "user_A", name |-> {"Leg Day"}, startedAt |-> 0,
        completedAt |-> {}, createdAt |-> 0, updatedAt |-> 0],
       [id |-> 2, clerkUserId |-> "user_A", name |-> {}, startedAt |-> 1,
        completedAt |-> {}, createdAt |-> 0, updatedAt |-> 0] >>

InitLinks ==
    /\ workouts = LinkedWorkouts
    /\ workoutsIdSeq = Len(LinkedWorkouts)
    /\ workoutExercises = << [id |-> 1, workoutId |-> 2, exerciseId |-> 2, order |-> 1] >>
    /\ workoutExercisesIdSeq = Len(workoutExercises)
    /\ sets = << >>
    /\ setsIdSeq = 0
    /\ exercises = Catalog
    /\ exercisesIdSeq = Len(Catalog)
    /\ now = 0
    /\ tz = 0
    /\ call = [op |-> "none"]
    /\ pending = NoRequests
    /\ form = NoForm

NextLinks ==
    \/ \E e \in {c.id : c \in Range(Catalog)}, o \in LinkOrders :
          InsertWorkoutExercise(1, e, o)
    \/ \E u \in Users, id \in WorkoutIds : GetWorkoutById(id, u)
    \/ \E u \in Users : GetWorkoutsByDate(u, 0)

SpecLinks == InitLinks /\ [][NextLinks]_vars

\* Schema: workouts of one user, their links and sets, and deletes of
\* workouts and of catalog exercises; each serial hands out a bounded number
\* of ids
NextSchema ==
    \/ \E d \in SchemaDataInputs :
          workoutsIdSeq < MaxWorkouts /\ CreateWorkout("user_A", d)
    \/ \E w \in DayWorkoutIds, e \in {c.id : c \in Range(Catalog)} :
          workoutExercisesIdSeq < MaxRows /\ InsertWorkoutExercise(w, e, 0)
    \/ \E l \in LinkIds : setsIdSeq < MaxRows /\ InsertSet(l)
    \/ \E w \in DayWorkoutIds : DeleteWorkout(w)
    \/ \E e \in {c.id : c \in Range(Catalog)} : DeleteExercise(e)

SpecSchema == Init /\ [][NextSchema]_vars

\* Catalog: the seeding fills an empty catalog in any order, and the catalog
\* is listed
InitCatalog ==
    /\ workouts = << >>
    /\ workoutsIdSeq = 0
    /\ workoutExercises = << >>
    /\ workoutExercisesIdSeq = 0
    /\ sets = << >>
    /\ setsIdSeq = 0
    /\ exercises = << >>
    /\ exercisesIdSeq = 0
    /\ now = 0
    /\ tz = 0
    /\ call = [op |-> "none"]
    /\ pending = NoRequests
    /\ form = NoForm

NextCatalog ==
    \/ \E n \in ExerciseNameInputs, c \in CategoryInputs : SeedExercise(n, c)
    \/ GetAllExercises

SpecCatalog == InitCatalog /\ [][NextCatalog]_vars

\* Server actions: createWorkoutAction and updateWorkoutAction called with
\* valid and invalid params, by a signed-in user or by no one
NextActions ==
    \/ \E p \in CreateParams, a \in Sessions : CreateWorkoutAction(p, a)
    \/ \E p \in UpdateParams, a \in Sessions : UpdateWorkoutAction(p, a)

SpecActions == Init /\ [][NextActions]_vars

\* Pages: the dashboard, new-workout and edit-workout pages requested with
\* and without a session, over two stored workouts, in several time zones
InitPages ==
    /\ workouts = LinkedWorkouts
    /\ workoutsIdSeq = Len(LinkedWorkouts)
    /\ workoutExercises = << [id |-> 1, workoutId |-> 2, exerciseId |-> 2, order |-> 1] >>
    /\ workoutExercisesIdSeq = Len(workoutExercises)
    /\ sets = << >>
    /\ setsIdSeq = 0
    /\ exercises = Catalog
    /\ exercisesIdSeq = Len(Catalog)
    /\ now = 0
    /\ tz \in TZOffsets
    /\ call = [op |-> "none"]
    /\ pending = NoRequests
    /\ form = NoForm

NextPages ==
    \/ \E a \in Sessions, d \in DateParams : DashboardPage(a, d)
    \/ \E a \in Sessions : DashboardPageMock(a)
    \/ \E a \in Sessions, d \in DateParams : NewWorkoutPage(a, d)
    \/ \E a \in Sessions, id \in WorkoutIdParams : EditWorkoutPage(a, id)
    \/ Tick

SpecPages == InitPages /\ [][NextPages]_vars

\* Frame: creates and the three reads of two users, while the clock
\* advances, over a stored workout that has a link with a set
InitFrame ==
    /\ workouts = SubSeq(LinkedWorkouts, 1, 1)
    /\ workoutsIdSeq = Len(workouts)
    /\ workoutExercises = << [id |-> 1, workoutId |-> 1, exerciseId |-> 1, order |-> 0] >>
    /\ workoutExercisesIdSeq = Len(workoutExercises)
    /\ sets = << [id |-> 1, workoutExerciseId |-> 1, setNumber |-> 1,
                  weight |-> {}, reps |-> 5] >>
    /\ setsIdSeq = Len(sets)
    /\ exercises = Catalog
    /\ exercisesIdSeq = Len(Catalog)
    /\ now = 0
    /\ tz = 0
    /\ call = [op |-> "none"]
    /\ pending = NoRequests
    /\ form = NoForm

NextFrame ==
    \/ \E u \in Users, d \in FrameDataInputs : CreateWorkout(u, d)
    \/ \E u \in Users, id \in WorkoutIds : GetWorkoutById(id, u)
    \/ \E u \in Users, t \in 0..(DayLen - 1) : GetWorkoutsByDate(u, t)
    \/ GetAllExercises
    \/ Tick

SpecFrame == InitFrame /\ [][NextFrame]_vars

\* Concurrent updates: two requests of the owner update workout 1 at the same
\* time, in every interleaving, while the clock advances; workout 2 is stored
\* next to it
NextConcurrent ==
    \/ \E r \in Requests, d \in ConcurrentDataInputs : UpdateWorkoutIssue(r, "user_A", 1, d)
    \/ \E r \in Requests : UpdateWorkoutExecute(r)
    \/ Tick

SpecConcurrent == InitLinks /\ [][NextConcurrent]_vars

\* Day partition: workouts of one user at every start tick, queried by date
\* by both users, in several time zones
NextWindow ==
    \/ \E d \in DayDataInputs : CreateWorkout("user_A", d)
    \/ \E u \in Users, t \in Times : GetWorkoutsByDate(u, t)

SpecWindow == InitDay /\ [][NextWindow]_vars

\* Update frame: updates of two users while the clock advances, over two
\* stored workouts of one user, one of them with a link that has a set, and a
\* stored workout of the other user
StoredWorkouts ==
    Append(LinkedWorkouts,
           [id |-> Len(LinkedWorkouts) + 1, clerkUserId |-> "user_B",
            name |-> {"Leg Day"}, startedAt |-> 0, completedAt |-> {0},
            createdAt |-> 0, updatedAt |-> 0])

InitUpdateFrame ==
    /\ workouts = StoredWorkouts
    /\ workoutsIdSeq = Len(StoredWorkouts)
    /\ workoutExercises = << [id |-> 1, workoutId |-> 2, exerciseId |-> 2, order |-> 1] >>
    /\ workoutExercisesIdSeq = Len(workoutExercises)
    /\ sets = << [id |-> 1, workoutExerciseId |-> 1, setNumber |-> 1,
                  weight |-> {}, reps |-> 5] >>
    /\ setsIdSeq = Len(sets)
    /\ exercises = Catalog
    /\ exercisesIdSeq = Len(Catalog)
    /\ now = 0
    /\ tz = 0
    /\ call = [op |-> "none"]
    /\ pending = NoRequests
    /\ form = NoForm

NextUpdateFrame ==
    \/ \E u \in Users, id \in WorkoutIds, d \in RenameDataInputs : UpdateWorkout(u, id, d)
    \/ Tick

SpecUpdateFrame == InitUpdateFrame /\ [][NextUpdateFrame]_vars

\* Redirects: the server actions save workouts that start at every tick, in
\* several time zones, and the redirect of each is followed to the dashboard
NextRedirect ==
    \/ \E p \in RedirectCreateParams, a \in Sessions : CreateWorkoutAction(p, a)
    \/ \E p \in RedirectUpdateParams, a \in Sessions : UpdateWorkoutAction(p, a)
    \/ FollowRedirect

SpecRedirect == InitDay /\ [][NextRedirect]_vars

\* Calendar: dates are picked in the calendar of browsers in several time
\* zones and the pushed URL is followed to the dashboard, which is also
\* requested without a date and with a string that is no date, over two
\* stored workouts, in several server time zones, while the clock advances
NextCalendar ==
    \/ \E a \in Sessions, d \in NewDateInputs, c \in TZOffsets : HandleDateSelect(a, d, c)
    \/ FollowPush
    \/ \E a \in Sessions, d \in {{}, {{}}} : DashboardPage(a, d)
    \/ Tick

SpecCalendar == InitPages /\ [][NextCalendar]_vars

\* Edit form: the form is opened for a workout without completion time and
\* the user picks start and end times, switches the time mode, clicks quick
\* durations, types custom minutes and submits
InitForm ==
    /\ workouts = << >>
    /\ workoutsIdSeq = 0
    /\ workoutExercises = << >>
    /\ workoutExercisesIdSeq = 0
    /\ sets = << >>
    /\ setsIdSeq = 0
    /\ exercises = Catalog
    /\ exercisesIdSeq = Len(Catalog)
    /\ now = 0
    /\ tz = 0
    /\ call = [op |-> "none"]
    /\ pending = NoRequests
    /\ \E t \in FormStartTimes :
          form = DefaultValues([startedAt |-> t, completedAt |-> {}])

NextForm ==
    \/ \E v \in PickedHours : SetStartHour(v)
    \/ \E v \in PickedMinutes : SetStartMinute(v)
    \/ \E v \in {"endTime", "duration"} : SetTimeMode(v)
    \/ \E v \in PickedHours : HandleEndTimeChange("endHour", v)
    \/ \E v \in PickedMinutes : HandleEndTimeChange("endMinute", v)
    \/ \E mins \in PickedDurations : HandleDurationChange(mins)
    \/ \E v \in TypedMinutes : CustomMinutesChange(v)
    \/ ClearEndTime
    \/ OnSubmit

SpecForm == InitForm /\ [][NextForm]_vars

\* Clock times: the form is opened for a workout that starts at any hour, and
\* the user sets durations of up to a day and picks end times
InitTimes ==
    /\ workouts = << >>
    /\ workoutsIdSeq = 0
    /\ workoutExercises = << >>
    /\ workoutExercisesIdSeq = 0
    /\ sets = << >>
    /\ setsIdSeq = 0
    /\ exercises = Catalog
    /\ exercisesIdSeq = Len(Catalog)
    /\ now = 0
    /\ tz = 0
    /\ call = [op |-> "none"]
    /\ pending = NoRequests
    /\ \E t \in ClockStartTimes :
          form = DefaultValues([startedAt |-> t, completedAt |-> {}])

NextTimes ==
    \/ \E mins \in DayDurationInputs : HandleDurationChange(mins)
    \/ \E v \in PickedHours : HandleEndTimeChange("endHour", v)
    \/ \E v \in PickedMinutes : HandleEndTimeChange("endMinute", v)

SpecTimes == InitTimes /\ [][NextTimes]_vars

\* ------------------------------------------------------------------ claims
IdsOf(r) == {r[k].id : k \in DOMAIN r}
RowIds(tbl) == {tbl[i].id : i \in DOMAIN tbl}
WithoutId(tbl, id) == SelectSeq(tbl, LAMBDA w : w.id # id)
\* the latest local midnight at or before date
DayStart(date) ==
    CHOOSE m \in (date - DayLen + 1)..date : (m + tz) % DayLen = 0
InDayWindow(t, date) == DayStart(date) <= t /\ t < DayStart(date) + DayLen

\* C1: getWorkoutById with the id of a workout of user A and a user B # A
\* returns null, which is what the same call returns on a table that holds
\* no workout with that id; a recorded call on another user's workout
\* returned null.
C1_OwnershipIsolation ==
    /\ \A i \in DOMAIN workouts : \A b \in Users :
          b # workouts[i].clerkUserId =>
            /\ WorkoutByIdIn(workouts, workouts[i].id, b) = {{}}
            /\ WorkoutByIdIn(workouts, workouts[i].id, b) =
                 WorkoutByIdIn(WithoutId(workouts, workouts[i].id), workouts[i].id, b)
    /\ (/\ call.op = "getWorkoutById"
        /\ \E i \in DOMAIN workouts : /\ workouts[i].id = call.workoutId
                                      /\ workouts[i].clerkUserId # call.userId)
          => call.val = {}

C1_Witness ==
    /\ call.op = "getWorkoutById"
    /\ call.val = {}
    /\ \E i \in DOMAIN workouts : /\ workouts[i].id = call.workoutId
                                  /\ workouts[i].clerkUserId # call.userId

\* C2: a step in which updateWorkout is called by a user who does not own the
\* workout with the given id returns null and leaves the whole workouts table,
\* hence every field of the target row, as it was.
C2_UpdateScoping ==
    [][(/\ call'.op = "updateWorkout"
        /\ \E i \in DOMAIN workouts : /\ workouts[i].id = call'.workoutId
                                      /\ workouts[i].clerkUserId # call'.userId)
          => (call'.val = {} /\ workouts' = workouts)]_vars

C2_Witness ==
    /\ call.op = "updateWorkout"
    /\ call.val = {}
    /\ \E i \in DOMAIN workouts :
          /\ workouts[i].id = call.workoutId
          /\ workouts[i].clerkUserId # call.userId
          /\ workouts[i].name # OrNull(call.data.name)
          /\ workouts[i].updatedAt # now

\* C3: every workout getWorkoutsByDate(userId, date) returned is owned by
\* userId, and every workout of userId whose startedAt lies in the local day
\* of date was returned, after any creates and updates of several users.
C3_DateQueryScoped ==
    call.op = "getWorkoutsByDate" =>
        /\ \A k \in DOMAIN call.val : \A i \in DOMAIN workouts :
              workouts[i].id = call.val[k].id => workouts[i].clerkUserId = call.userId
        /\ IdsOf(call.val) \subseteq RowIds(workouts)
        /\ \A i \in DOMAIN workouts :
              (/\ workouts[i].clerkUserId = call.userId
               /\ InDayWindow(workouts[i].startedAt, call.date))
                 => workouts[i].id \in IdsOf(call.val)

C3_Witness ==
    /\ call.op = "getWorkoutsByDate"
    /\ Len(call.val) = 1
    /\ \E i, j \in DOMAIN workouts :
          /\ workouts[i].clerkUserId = call.userId
          /\ workouts[j].clerkUserId # call.userId
          /\ workouts[i].id = call.val[1].id
          /\ InDayWindow(workouts[i].startedAt, call.date)
          /\ InDayWindow(workouts[j].startedAt, call.date)

\* C4: a workout of userId was returned by getWorkoutsByDate(userId, date) if
\* and only if startOfLocalDay(date) <= startedAt < startOfLocalDay(date) +
\* 1 day, and the query returns for date what it returns for the local
\* midnight of date's day.
C4_HalfOpenDayWindow ==
    call.op = "getWorkoutsByDate" =>
        /\ \A i \in DOMAIN workouts :
              workouts[i].clerkUserId = call.userId =>
                 (workouts[i].id \in IdsOf(call.val)
                    <=> (/\ DayStart(call.date) <= workouts[i].startedAt
                         /\ workouts[i].startedAt < DayStart(call.date) + DayLen))
        /\ WorkoutsByDateIn(workouts, call.userId, call.date) =
              WorkoutsByDateIn(workouts, call.userId, DayStart(call.date))
        /\ call.val \in WorkoutsByDateIn(workouts, call.userId, DayStart(call.date))

\* queried with a time of day: the workout at local midnight of the day is
\* returned and the one at local midnight of the next day is not
C4_Witness ==
    /\ call.op = "getWorkoutsByDate"
    /\ call.date # DayStart(call.date)
    /\ Len(call.val) = 1
    /\ call.val[1].startedAt = DayStart(call.date)
    /\ \E i \in DOMAIN workouts :
          /\ workouts[i].clerkUserId = call.userId
          /\ workouts[i].startedAt = DayStart(call.date) + DayLen

\* C5: the exercises of every workout returned by getWorkoutById or
\* getWorkoutsByDate are sorted by the link's order ascending, whatever the
\* insertion order of the links.
OrdersAscend(exs) ==
    \A k \in DOMAIN exs : k < Len(exs) => exs[k].order <= exs[k + 1].order
C5_ExercisesSortedByOrder ==
    /\ call.op = "getWorkoutById" => \A w \in call.val : OrdersAscend(w.exercises)
    /\ call.op = "getWorkoutsByDate" =>
          \A k \in DOMAIN call.val : OrdersAscend(call.val[k].exercises)

\* links inserted with orders 2, 0, 1 are returned as 0, 1, 2
C5_Witness ==
    /\ call.op = "getWorkoutById"
    /\ \E w \in call.val :
          /\ [k \in DOMAIN w.exercises |-> w.exercises[k].order] = << 0, 1, 2 >>
          /\ LET mine == SelectSeq(workoutExercises, LAMBDA we : we.workoutId = w.id)
             IN  [k \in DOMAIN mine |-> mine[k].order] = << 2, 0, 1 >>

\* C6: in every sequence getWorkoutsByDate returned, each workout's startedAt
\* is at most that of the workout after it.
C6_WorkoutsSortedByStart ==
    call.op = "getWorkoutsByDate" =>
        \A k \in DOMAIN call.val :
            k < Len(call.val) => call.val[k].startedAt <= call.val[k + 1].startedAt

\* two workouts of one day, the later one created (or moved) first
C6_Witness ==
    /\ call.op = "getWorkoutsByDate"
    /\ Len(call.val) = 2
    /\ call.val[1].id > call.val[2].id
    /\ call.val[1].startedAt < call.val[2].startedAt

\* C7: a createWorkout(owner, {name: n, startedAt: T}) with a non-empty n is
\* followed by getWorkoutById(returnedId, owner) = the workout with that id,
\* name n and startedAt T, and no create or update of another user changes
\* what getWorkoutById returns to the owner.
C7_CreateRoundTrip ==
    [][/\ (call'.op = "createWorkout" /\ workouts' # workouts
             /\ call'.data.name \notin {{}, {""}})
          => (WorkoutByIdIn(workouts, call.val.id, call.userId))' =
               {{[id |-> call'.val.id, name |-> call'.data.name,
                  startedAt |-> call'.data.startedAt, completedAt |-> {},
                  exercises |-> << >>]}}
       /\ \A i \in DOMAIN workouts :
            (<< workouts, workoutExercises, exercises >>' #
                  << workouts, workoutExercises, exercises >>
               /\ call'.op \in {"createWorkout", "updateWorkout"}
               /\ call'.userId # workouts[i].clerkUserId)
            => (WorkoutByIdIn(workouts, workouts[i].id, workouts[i].clerkUserId))' =
                 WorkoutByIdIn(workouts, workouts[i].id, workouts[i].clerkUserId)
      ]_vars

\* the owner reads back the named workout after the other user has created one
C7_Witness ==
    /\ call.op = "getWorkoutById"
    /\ Len(workouts) = 2
    /\ workouts[2].clerkUserId # call.userId
    /\ call.val = {[id |-> 1, name |-> {"Leg Day"}, startedAt |-> DayLen,
                    completedAt |-> {}, exercises |-> << >>]}

\* C8: a createWorkout whose name is empty or whitespace only stores the
\* workout with name null.
BlankNames == {{""}, {" "}}
C8_BlankNameStoredAsNull ==
    [][(call'.op = "createWorkout" /\ workouts' # workouts
          /\ call'.data.name \in BlankNames)
         => workouts'[Len(workouts')].name = {}]_vars

\* C9 as stated: updateWorkout called again with the input of the call before
\* it leaves every stored field as the first call left it and returns the
\* same identifier.
C9_UpdateIdempotent ==
    [][(call.op = "updateWorkout"
          /\ UpdateWorkout(call.userId, call.workoutId, call.data))
         => (workouts' = workouts /\ call'.val = call.val)]_vars

\* C9 amended: the repeated call returns the same identifier and leaves every
\* field but updatedAt as the first call left it; updatedAt of the matched
\* row becomes the time of the repeated call.
C9_UpdateIdempotentButUpdatedAt ==
    [][(call.op = "updateWorkout"
          /\ UpdateWorkout(call.userId, call.workoutId, call.data))
         => /\ call'.val = call.val
            /\ workouts' = [i \in DOMAIN workouts |->
                  IF workouts[i].id = call.workoutId
                       /\ workouts[i].clerkUserId = call.userId
                  THEN [workouts[i] EXCEPT !.updatedAt = now]
                  ELSE workouts[i]]]_vars

\* an owner's update after the clock has moved on since the row was created
C9_Witness ==
    /\ call.op = "updateWorkout"
    /\ call.val # {}
    /\ \E i \in DOMAIN workouts :
          /\ {[id |-> workouts[i].id]} = call.val
          /\ workouts[i].name = OrNull(call.data.name)
          /\ workouts[i].startedAt = call.data.startedAt
          /\ workouts[i].updatedAt = now
          /\ workouts[i].createdAt < now

\* C10: createWorkout returns an identifier no existing workout has and adds
\* exactly one row, and the identifiers of the workouts are pairwise distinct.
C10_FreshIdentifiers ==
    /\ [](\A i, j \in DOMAIN workouts : i # j => workouts[i].id # workouts[j].id)
    /\ [][(call'.op = "createWorkout" /\ workouts' # workouts)
            => /\ call'.val.id \notin RowIds(workouts)
               /\ Len(workouts') = Len(workouts) + 1
               /\ workouts'[Len(workouts')].id = call'.val.id
               /\ SubSeq(workouts', 1, Len(workouts)) = workouts]_vars

\* two creates with the same owner and data gave two workouts
C10_Witness ==
    /\ Len(workouts) = 2
    /\ workouts[1].id # workouts[2].id
    /\ [workouts[1] EXCEPT !.id = 0] = [workouts[2] EXCEPT !.id = 0]

\* C11: the owner of a workout never changes after creation: every step keeps
\* the id and the clerkUserId of every stored row, and a row added by
\* createWorkout carries the userId that call was given.
C11_OwnerImmutable ==
    [][/\ \A i \in DOMAIN workouts :
            /\ i \in DOMAIN workouts'
            /\ workouts'[i].id = workouts[i].id
            /\ workouts'[i].clerkUserId = workouts[i].clerkUserId
       /\ Len(workouts') > Len(workouts) =>
            /\ call'.op = "createWorkout"
            /\ workouts'[Len(workouts')].clerkUserId = call'.userId]_vars

\* both users own a workout and an update by its owner has just rewritten one
C11_Witness ==
    /\ call.op = "updateWorkout"
    /\ call.val # {}
    /\ {w.clerkUserId : w \in Range(workouts)} = Users
    /\ \E w \in Range(workouts) :
          /\ w.id = call.workoutId
          /\ w.clerkUserId = call.userId
          /\ w.startedAt = call.data.startedAt
          /\ w.startedAt # 0

\* no link references a missing workout or exercise, no set a missing link
NoDanglingReference ==
    /\ \A we \in Range(workoutExercises) :
          /\ \E w \in Range(workouts) : w.id = we.workoutId
          /\ \E e \in Range(exercises) : e.id = we.exerciseId
    /\ \A st \in Range(sets) :
          \E we \in Range(workoutExercises) : we.id = st.workoutExerciseId

\* C12: destroying a workout removes exactly that workout, the links whose
\* workoutId it is and the sets of those links; the other workouts, links and
\* sets and the whole catalog stay, and no link or set is left referencing a
\* missing parent.
C12_CascadeDelete ==
    /\ []NoDanglingReference
    /\ [][Len(workouts') < Len(workouts) =>
            LET gone == RowIds(workouts) \ RowIds(workouts')
                goneLinks == {we.id : we \in {x \in Range(workoutExercises) :
                                                x.workoutId \in gone}}
            IN  /\ gone = {call'.workoutId}
                /\ call'.op = "deleteWorkout"
                /\ workouts' = SelectSeq(workouts, LAMBDA w : w.id \notin gone)
                /\ workoutExercises' =
                      SelectSeq(workoutExercises, LAMBDA we : we.workoutId \notin gone)
                /\ sets' = SelectSeq(sets,
                      LAMBDA st : st.workoutExerciseId \notin goneLinks)
                /\ exercises' = exercises]_vars

\* a workout with a link and a set was destroyed while another link with a
\* set of another workout stayed
C12_Witness ==
    /\ call.op = "deleteWorkout"
    /\ call.val = 1
    /\ workoutExercisesIdSeq = MaxRows
    /\ setsIdSeq = MaxRows
    /\ Len(workouts) = 1
    /\ Len(workoutExercises) = 1
    /\ Len(sets) = 1

\* C13: destroying a catalog exercise that a link references fails with an
\* InvariantViolation and leaves exercises, links and sets as they were; it
\* succeeds, removing that exercise alone, only when no link references it.
C13_RestrictDelete ==
    [][/\ (call' # call /\ call'.op = "deleteExercise") =>
            /\ workoutExercises' = workoutExercises
            /\ sets' = sets
            /\ IF \E we \in Range(workoutExercises) : we.exerciseId = call'.exerciseId
               THEN /\ call'.error = {"InvariantViolation"}
                    /\ exercises' = exercises
               ELSE /\ call'.error = {}
                    /\ exercises' = WithoutId(exercises, call'.exerciseId)
       /\ exercises' # exercises =>
            /\ call'.op = "deleteExercise"
            /\ call'.error = {}
            /\ RowIds(exercises) \ RowIds(exercises') = {call'.exerciseId}
            /\ \A we \in Range(workoutExercises) : we.exerciseId # call'.exerciseId]_vars

\* the delete of an exercise was refused while a link with a set referenced it
C13_Witness ==
    /\ call.op = "deleteExercise"
    /\ call.error = {"InvariantViolation"}
    /\ \E we \in Range(workoutExercises) :
          /\ we.exerciseId = call.exerciseId
          /\ \E st \in Range(sets) : st.workoutExerciseId = we.id
    /\ Len(exercises) < Len(Catalog)

\* a listing in ascending order of category and, within a category, of name
CategoryThenNameAscends(r) ==
    \A i, j \in DOMAIN r : i < j =>
        \/ Collate(r[i].category) < Collate(r[j].category)
        \/ /\ r[i].category = r[j].category
           /\ Collate(r[i].name) < Collate(r[j].name)

\* C14: getAllExercises returns every catalog exercise exactly once, sorted
\* by category and within equal category by name; the catalog has exactly
\* one such listing, so two calls on the same catalog return the same one.
C14_CatalogSortedByCategoryThenName ==
    /\ [](Cardinality(AllExercisesIn(exercises)) = 1)
    /\ [][(call' # call /\ call'.op = "getAllExercises") =>
            /\ Len(call'.val) = Len(exercises)
            /\ Range(call'.val) =
                  {[id |-> e.id, name |-> e.name, category |-> e.category] :
                      e \in Range(exercises)}
            /\ CategoryThenNameAscends(call'.val)]_vars

\* a listing of two exercises of one category that were seeded in the
\* opposite order
C14_Witness ==
    /\ call.op = "getAllExercises"
    /\ Len(call.val) = 2
    /\ call.val[1].category = call.val[2].category
    /\ call.val[1].id > call.val[2].id

\* C15: a lookup or a scoped update that matches no row reports absence and
\* no fault: getWorkoutsByDate returns the empty sequence, getWorkoutById
\* and updateWorkout return null, for a wrong date, id or owner alike.
C15_NoMatchIsAbsence ==
    /\ (/\ call.op = "getWorkoutsByDate"
        /\ \A w \in Range(workouts) :
              ~(w.clerkUserId = call.userId /\ InDayWindow(w.startedAt, call.date)))
       => call.val = << >>
    /\ (/\ call.op = "updateWorkout"
        /\ \A w \in Range(workouts) :
              ~(w.clerkUserId = call.userId /\ w.id = call.workoutId))
       => call.val = {}
    /\ \A u \in Users, id \in WorkoutIds :
          (\A w \in Range(workouts) : ~(w.clerkUserId = u /\ w.id = id))
          => WorkoutByIdIn(workouts, id, u) = {{}}

\* an update that matched no row because the workout is another user's
C15_WitnessWrongOwner ==
    /\ call.op = "updateWorkout"
    /\ call.val = {}
    /\ \E w \in Range(workouts) :
          w.id = call.workoutId /\ w.clerkUserId # call.userId

\* C16: after updateWorkoutAction is called with a selection of exercise ids
\* and succeeds, getWorkoutById for that workout and user returns exactly the
\* selected exercises.
C16_SavedSelectionIsLinked ==
    (call.op = "updateWorkoutAction" /\ call.threw = {}) =>
        \A r \in WorkoutByIdIn(workouts, CHOOSE n \in call.params.id : TRUE,
                                CHOOSE u \in call.auth : TRUE) :
            /\ r # {}
            /\ \A w \in r :
                  [i \in DOMAIN w.exercises |-> w.exercises[i].id]
                      = call.params.exerciseIds

\* params that fail validation: a name longer than 255, an unparseable
\* date, or for updateWorkoutAction an id that is no positive integer
ParamsInvalid(c) ==
    \/ \E n \in c.params.name : Len(n) > 255
    \/ c.params.startedAt = {}
    \/ /\ c.op = "updateWorkoutAction"
       /\ (c.params.id = {} \/ \E n \in c.params.id : n <= 0)

\* C17: createWorkoutAction and updateWorkoutAction called with params that
\* fail validation, or by no authenticated user, throw without a repository
\* call, a revalidation or a redirect, and leave the stored workouts as they
\* were; the owner handed to the repository, and the owner of every row a
\* call writes, is the identity auth() returned.
C17_ActionsValidateAndAuthenticate ==
    [][call'.op \in {"createWorkoutAction", "updateWorkoutAction"} =>
        /\ (ParamsInvalid(call') \/ call'.auth = {}) =>
              /\ call'.threw # {}
              /\ call'.repo = {}
              /\ call'.revalidated = {}
              /\ call'.redirect = {}
              /\ workouts' = workouts
              /\ workoutsIdSeq' = workoutsIdSeq
        /\ \A c \in call'.repo : {c.userId} = call'.auth
        /\ \A i \in DOMAIN workouts' :
              (i \notin DOMAIN workouts \/ workouts'[i] # workouts[i])
              => {workouts'[i].clerkUserId} = call'.auth]_vars

\* an update of a stored workout to another start was refused because no one
\* was signed in
C17_Witness ==
    /\ call.op = "updateWorkoutAction"
    /\ call.threw = {"Unauthorized"}
    /\ call.auth = {}
    /\ \E w \in Range(workouts) :
          {w.id} = call.params.id /\ {w.startedAt} # call.params.startedAt

\* C18: every dashboard page (dashboard list, new workout, edit workout)
\* requested while auth() yields no userId redirects to /sign-in, calls no
\* data function and renders nothing.
C18_PagesRequireAuth ==
    (call.op \in {"DashboardPage", "NewWorkoutPage", "EditWorkoutPage"}
     /\ call.auth = {})
    => /\ call.redirect = {"/sign-in"}
       /\ call.data = {}
       /\ call.rendered = {}

\* C19: createWorkout adds one workout row and changes nothing else: the
\* rows stored before, of any owner, and the links, sets and exercises are
\* as they were; the new workout has no completion timestamp and
\* getWorkoutById returns it with no exercises.
C19_CreateFrame ==
    [][((call' # call /\ call'.op = "createWorkout")
            \/ Len(workouts') # Len(workouts)) =>
        /\ call'.op = "createWorkout"
        /\ Len(workouts') = Len(workouts) + 1
        /\ SubSeq(workouts', 1, Len(workouts)) = workouts
        /\ workoutExercises' = workoutExercises
        /\ sets' = sets
        /\ exercises' = exercises
        /\ workouts'[Len(workouts')].completedAt = {}
        /\ \A r \in WorkoutByIdIn(workouts', call'.val.id, call'.userId) :
              /\ r # {}
              /\ \A w \in r : w.exercises = << >> /\ w.completedAt = {}]_vars

\* user_B created a workout next to the stored workout of user_A, whose link
\* and set are in place
C19_Witness ==
    /\ call.op = "createWorkout"
    /\ call.userId = "user_B"
    /\ Len(workouts) = 2
    /\ workouts[1].clerkUserId = "user_A"
    /\ workouts[2].id = call.val.id
    /\ Len(workoutExercises) = 1
    /\ Len(sets) = 1

ReadOps == {"getWorkoutsByDate", "getWorkoutById", "getAllExercises"}

\* C20: getWorkoutsByDate, getWorkoutById and getAllExercises are read-only:
\* a call leaves workouts, links, sets and exercises as they were and
\* getWorkoutsByDate leaves its Date argument as it was; so the read made
\* before it would return after it what it returned before it, and the two
\* reads give the same results in either order.
C20_ReadsAreReadOnly ==
    [][(call' # call /\ call'.op \in ReadOps) =>
        /\ workouts' = workouts
        /\ workoutExercises' = workoutExercises
        /\ sets' = sets
        /\ exercises' = exercises
        /\ call'.op = "getWorkoutsByDate" => call'.dateAfter = call'.date
        /\ call.op = "getWorkoutById" =>
              \A u \in {call.userId}, id \in {call.workoutId} :
                (WorkoutByIdIn(workouts, id, u))' = WorkoutByIdIn(workouts, id, u)
        /\ call.op = "getWorkoutsByDate" =>
              \A u \in {call.userId}, t \in {call.date} :
                (WorkoutsByDateIn(workouts, u, t))' = WorkoutsByDateIn(workouts, u, t)
        /\ call.op = "getAllExercises" =>
              (AllExercisesIn(exercises))' = AllExercisesIn(exercises)]_vars

\* getWorkoutsByDate returned two workouts, one with an exercise, for a date
\* that is not the start of its day
C20_Witness ==
    /\ call.op = "getWorkoutsByDate"
    /\ call.date # StartOfDay(call.date)
    /\ call.dateAfter = call.date
    /\ Len(call.val) = 2
    /\ \E i \in DOMAIN call.val : call.val[i].exercises # << >>

\* C21: when two requests of the owner update the same workout at the same
\* time, each executed statement leaves the row with that request's name and
\* start and returns the row's id, so that after both the row holds the pair
\* of exactly one of them, and no other workout changes
PairOf(p) == << OrNull(p.data.name), p.data.startedAt >>
C21_ConcurrentUpdatesLastWriteWins ==
    [][ /\ \A r \in Requests :
             (pending[r].pc = "issued" /\ pending'[r].pc = "returned") =>
                /\ << workouts'[1].name, workouts'[1].startedAt >> = PairOf(pending[r])
                /\ pending'[r].val = {[id |-> 1]}
                /\ \A i \in DOMAIN workouts : i # 1 => workouts'[i] = workouts[i]
                /\ DOMAIN workouts' = DOMAIN workouts
        /\ (\A r \in Requests : pending'[r].pc = "returned") =>
                /\ \E r \in Requests :
                      << workouts'[1].name, workouts'[1].startedAt >> = PairOf(pending'[r])
                /\ workouts'[2] = LinkedWorkouts[2]
      ]_vars
\* both requests returned, with different data, the first one built before
\* and executed after the second
C21_Witness ==
    /\ \A r \in Requests : pending[r].pc = "returned"
    /\ PairOf(pending["first"]) # PairOf(pending["second"])
    /\ pending["first"].data.name # pending["second"].data.name
    /\ pending["first"].data.startedAt # pending["second"].data.startedAt
    /\ pending["first"].updatedAt < pending["second"].updatedAt
    /\ workouts[1].updatedAt = pending["first"].updatedAt
    /\ << workouts[1].name, workouts[1].startedAt >> = PairOf(pending["first"])

\* C22: both server actions run validate, authenticate, repository mutation,
\* cache revalidation, redirect in that order: a path is revalidated only
\* after a mutation that succeeded, redirect is the last statement, and
\* when updateWorkout returns absent (missing id or another user's workout
\* alike) updateWorkoutAction throws the one error and neither revalidates
\* nor redirects
ActionOps == {"createWorkoutAction", "updateWorkoutAction"}
MutationSteps == {"createWorkout", "updateWorkout"}
NotFoundMessage == "Workout not found or you don't have permission to edit it"
StepAt(c, name) == {i \in DOMAIN c.steps : c.steps[i] = name}
C22_ActionStepOrder ==
    call.op \in ActionOps =>
        /\ call.steps[1] = "parse"
        /\ Len(call.steps) >= 2 => call.steps[2] = "auth" /\ call.threw # {"ZodError"}
        /\ Len(call.steps) >= 3 =>
              /\ call.steps[3] \in MutationSteps
              /\ call.auth # {}
              /\ call.repo # {}
        /\ \A i \in DOMAIN call.steps : call.steps[i] \in MutationSteps => i = 3
        /\ \A i \in StepAt(call, "revalidatePath") : i > 3 /\ call.threw = {}
        /\ \A i \in StepAt(call, "redirect") :
              /\ i = Len(call.steps)
              /\ StepAt(call, "revalidatePath") # {}
              /\ \A j \in StepAt(call, "revalidatePath") : j < i
        /\ call.revalidated # {} <=> StepAt(call, "revalidatePath") # {}
        /\ call.redirect # {} <=> StepAt(call, "redirect") # {}
        /\ call.threw = {} <=> call.redirect # {}
        /\ \A q \in call.repo :
              (q.fn = "updateWorkout" /\ UpdateTargets(q.userId, q.workoutId) = {}) =>
                /\ call.threw = {NotFoundMessage}
                /\ call.revalidated = {}
                /\ call.redirect = {}
                /\ StepAt(call, "revalidatePath") = {}
                /\ StepAt(call, "redirect") = {}
\* updateWorkoutAction on another user's workout threw the not-found error
C22_Witness ==
    /\ call.op = "updateWorkoutAction"
    /\ call.threw = {NotFoundMessage}
    /\ \E q \in call.repo, w \in Range(workouts) :
          w.id = q.workoutId /\ w.clerkUserId # q.userId
    /\ call.steps = << "parse", "auth", "updateWorkout" >>

\* C23: day windows do not double-count: getWorkoutsByDate(owner, w.startedAt)
\* returns every stored workout w, and w is returned for no two dates that
\* fall on different local calendar days, so w appears under exactly the
\* local day of its start
QueryDates == (0 - DayLen)..(MaxTime + DayLen)
ReturnedFor(w, date) ==
    \A r \in WorkoutsByDateIn(workouts, w.clerkUserId, date) : w.id \in IdsOf(r)
C23_DayWindowsPartition ==
    \A w \in Range(workouts) :
        /\ ReturnedFor(w, w.startedAt)
        /\ LET returnedFor == {d \in QueryDates : ReturnedFor(w, d)}
           IN  /\ \A d1, d2 \in returnedFor : GetDate(d1) = GetDate(d2)
               /\ \A d \in QueryDates :
                     GetDate(d) = GetDate(w.startedAt) => d \in returnedFor
        /\ call.op = "getWorkoutsByDate" /\ call.userId = w.clerkUserId =>
              (w.id \in IdsOf(call.val) <=> GetDate(call.date) = GetDate(w.startedAt))
\* away from UTC, a workout that starts exactly at the local midnight after
\* the queried day was left out of that day's result, and another workout of
\* the queried day was returned
C23_Witness ==
    /\ tz # 0
    /\ call.op = "getWorkoutsByDate"
    /\ call.date # DayStart(call.date)
    /\ Len(call.val) = 1
    /\ \E w \in Range(workouts) :
          /\ w.clerkUserId = call.userId
          /\ w.startedAt = DayStart(call.date) + DayLen
          /\ w.id \notin IdsOf(call.val)
          /\ ReturnedFor(w, w.startedAt)

\* C24: a successful updateWorkout changes only name, startedAt and updatedAt
\* of the row matched by id and owner: its completedAt, createdAt, id and
\* owner stay, every other workout stays, and the links, sets and catalog
\* stay
C24_UpdateFrame ==
    [][ (/\ call'.op = "updateWorkout"
         /\ (call' # call \/ workouts' # workouts)
         /\ call'.val # {}) =>
            /\ DOMAIN workouts' = DOMAIN workouts
            /\ \A i \in DOMAIN workouts :
                  IF workouts[i].id = call'.workoutId
                  THEN /\ workouts[i].clerkUserId = call'.userId
                       /\ [workouts'[i] EXCEPT !.name = workouts[i].name,
                                               !.startedAt = workouts[i].startedAt,
                                               !.updatedAt = workouts[i].updatedAt]
                            = workouts[i]
                  ELSE workouts'[i] = workouts[i]
            /\ workoutExercises' = workoutExercises
            /\ sets' = sets
            /\ exercises' = exercises
            /\ workoutsIdSeq' = workoutsIdSeq
            /\ \A u \in {call'.userId}, id \in {call'.workoutId} :
                  {x.exercises : x \in UNION WorkoutByIdIn(workouts, id, u)} =
                     {x.exercises : x \in UNION (WorkoutByIdIn(workouts, id, u))'}
      ]_vars
\* the owner renamed and moved a workout after the clock advanced, next to
\* another of their workouts and a workout of another user
C24_Witness ==
    /\ call.op = "updateWorkout"
    /\ call.val = {[id |-> 1]}
    /\ \E i \in DOMAIN workouts : workouts[i].clerkUserId # call.userId
    /\ \E i \in DOMAIN workouts : i # 1 /\ workouts[i].clerkUserId = call.userId
    /\ workouts[1].name = {"Push"}
    /\ workouts[1].startedAt # LinkedWorkouts[1].startedAt
    /\ workouts[1].updatedAt > workouts[1].createdAt
    /\ \A i \in DOMAIN workouts : i # 1 => workouts[i] = StoredWorkouts[i]

\* C25: updateWorkout replaces the name: after a successful update the stored
\* name is data.name when that is a non-empty string and absent otherwise,
\* so an omitted or empty name clears a stored name
C25_UpdateReplacesName ==
    [][ (/\ call'.op = "updateWorkout"
         /\ (call' # call \/ workouts' # workouts)
         /\ call'.val # {}) =>
            \A i \in DOMAIN workouts :
                workouts[i].id = call'.workoutId =>
                    /\ workouts'[i].name =
                          IF \E n \in call'.data.name : Len(n) > 0
                          THEN call'.data.name ELSE {}
                    /\ (call'.data.name = {} \/ call'.data.name = {""}) =>
                          workouts'[i].name = {}
      ]_vars
\* the owner updated a named workout without sending a name, and the stored
\* name is now absent
C25_Witness ==
    /\ call.op = "updateWorkout"
    /\ call.val = {[id |-> 1]}
    /\ call.data.name = {}
    /\ StoredWorkouts[1].name # {}
    /\ workouts[1].name = {}
    /\ workouts[1].updatedAt = 0

\* C26: after createWorkoutAction or updateWorkoutAction succeeded with start
\* T, the dashboard page at the redirect target queries the day window that
\* contains T and lists the saved workout, for every T and every offset of
\* local time to UTC
SavedId(q) == IF q.fn = "updateWorkout" THEN q.workoutId ELSE workoutsIdSeq
C26_RedirectShowsSavedWorkout ==
    [][ (/\ call.op \in ActionOps
         /\ call.threw = {}
         /\ call'.op = "DashboardPage") =>
            \A q \in call.repo :
                /\ \A d \in call'.data : InDayWindow(q.data.startedAt, d.date)
                /\ \A r \in call'.rendered :
                      \E w \in Range(r.workouts) :
                          w.id = SavedId(q) /\ w.startedAt = q.data.startedAt
      ]_vars

\* C27: a date D picked in WorkoutCalendar is written to the URL as the local
\* day D, DashboardPage parses it to the local midnight of D and
\* getWorkoutsByDate queries exactly the local day D; with a date parameter
\* that does not parse the dashboard queries the window of today
PickedDay(c) == {(t + c.clientTz) \div DayLen : t \in c.newDate}
ListedOn(userId, day) ==
    {w.id : w \in {x \in Range(workouts) :
                     x.clerkUserId = userId /\ GetDate(x.startedAt) = day}}
C27_DateRoundTrip ==
    [][ /\ (call.op = "handleDateSelect" /\ call'.op = "DashboardPage"
            /\ call'.redirect = {}
            /\ \E n \in CalendarDays : call'.searchParams = {{n}}) =>
              \A day \in PickedDay(call), q \in call'.data, r \in call'.rendered :
                  /\ call'.searchParams = {{day}}
                  /\ q.date = day * DayLen - tz
                  /\ GetDate(q.date) = day /\ TimeOfDay(q.date) = 0
                  /\ r.selectedDate = q.date
                  /\ IdsOf(r.workouts) = ListedOn(q.userId, day)
        /\ (call' # call /\ call'.op = "DashboardPage" /\ call'.redirect = {}
            /\ call'.searchParams = {{}}) =>
              \A q \in call'.data, r \in call'.rendered :
                  /\ q.date = now
                  /\ IdsOf(r.workouts) = ListedOn(q.userId, GetDate(now))
        /\ (call'.op = "handleDateSelect" /\ call'.newDate = {}) => call'.pushed = {}
      ]_vars
\* away from UTC, a day picked in a browser of another time zone was followed
\* to a dashboard that lists one of the user's two workouts
C27_Witness ==
    /\ call.op = "DashboardPage"
    /\ call.redirect = {}
    /\ tz # 0
    /\ \E n \in CalendarDays : call.searchParams = {{n}}
    /\ \E r \in call.rendered : Len(r.workouts) = 1
    /\ \E w \in Range(workouts), q \in call.data :
          w.clerkUserId = q.userId /\ GetDate(w.startedAt) # GetDate(q.date)

\* C28: the completion timestamp that onSubmit of the edit form builds is at
\* or after the start timestamp and differs from it by exactly the duration
\* the form displays, also when the end clock time is earlier than the start
\* clock time
C28_CompletionMatchesDisplayedDuration ==
    call.op = "onSubmit" =>
        \A c \in call.params.completedAt :
            /\ c >= call.params.startedAt
            /\ call.displayDuration = {c - call.params.startedAt}

\* C29: for the start time the form is opened with and every duration d of
\* 0 .. 1439 minutes, calculateDurationFromTimes of the start and of the end
\* time that calculateEndTimeFromDuration gives for d is d, and
\* calculateDurationFromTimes returns a value of 0 .. 1439 for every end
\* time and null without one; the same holds of the values the handlers of
\* the form computed
ClockMinutes == {PadStart2(ToString(i)) : i \in 0..(MinutesPerHour - 1)}
C29_DurationAndEndTimeInverse ==
    /\ call.op = "none" =>
        /\ \A d \in 0..(MinutesPerDay - 1) :
              \A e \in {CalculateEndTimeFromDuration(form.startHour, form.startMinute, d)} :
                  CalculateDurationFromTimes(form.startHour, form.startMinute,
                                             {e.hour}, {e.minute}) = {d}
        /\ \A h \in hourOptions, m \in ClockMinutes :
              /\ CalculateDurationFromTimes(form.startHour, form.startMinute,
                                            {h}, {m}) # {}
              /\ \A d \in CalculateDurationFromTimes(form.startHour, form.startMinute,
                                                      {h}, {m}) :
                    0 <= d /\ d < MinutesPerDay
        /\ \A h \in {{}, {""}, {"00"}}, m \in {{}, {""}, {"30"}} :
              (Falsy(h) \/ Falsy(m)) =>
                  CalculateDurationFromTimes(form.startHour, form.startMinute, h, m) = {}
    /\ (call.op = "handleDurationChange" /\ call.minutes \in 0..(MinutesPerDay - 1)) =>
          CalculateDurationFromTimes(call.startHour, call.startMinute,
                                     {call.val.hour}, {call.val.minute}) = {call.minutes}
    /\ call.op = "handleEndTimeChange" =>
        /\ call.val = {} <=> (Falsy(form.endHour) \/ Falsy(form.endMinute))
        /\ \A d \in call.val :
              /\ d \in 0..(MinutesPerDay - 1)
              /\ form.durationMinutes = {d}
              /\ {CalculateEndTimeFromDuration(form.startHour, form.startMinute, d)} =
                    {[hour |-> h, minute |-> m] : h \in form.endHour, m \in form.endMinute}
\* a duration typed at a late start gave an end time after midnight, and
\* picking that end time again gave the duration back
C29_Witness ==
    /\ call.op = "handleEndTimeChange"
    /\ form.startHour = "23"
    /\ form.endHour = {"00"}
    /\ form.endMinute = {"30"}
    /\ form.durationMinutes = {90}
    /\ CalculateEndTimeFromDuration(form.startHour, form.startMinute, 90) =
          [hour |-> "00", minute |-> "30"]

\* C30: for every start time and every integer duration handed to it by
\* handleDurationChange, calculateEndTimeFromDuration returns a two-digit
\* hour of 00 .. 23 and a two-digit minute of 00 .. 59
C30_EndTimeIsClockTime ==
    call.op = "handleDurationChange" =>
        /\ call.val.hour \in hourOptions
        /\ call.val.minute \in ClockMinutes
====
